---- MODULE Spec2Model ----
(***************************************************************************)
(* Model of extras/scripts/completion/generate_completion.py: the zsh and  *)
(* fish argument serializers, the argument lookup, and the template        *)
(* pipeline driven by main().                                              *)
(*                                                                         *)
(* A Python str is a sequence of one-character strings, so that strip,     *)
(* replace, upper and join are computed character by character.            *)
(***************************************************************************)
EXTENDS Integers, Sequences, FiniteSets, TLC

VARIABLES arg, out, spec, name, found,
          pc, idx, shell, stdout, invoked, steps, globals, rendered,
          files, before, exc

vars == <<arg, out, spec, name, found,
          pc, idx, shell, stdout, invoked, steps, globals, rendered,
          files, before, exc>>

(***************************************************************************)
(* Bounds of the explored inputs.                                          *)
(***************************************************************************)
MaxAliases == 3
MaxGroups == 2
MaxArgs == 3

(***************************************************************************)
(* str methods used by the script.                                         *)
(***************************************************************************)
RECURSIVE Concat(_)
Concat(parts) ==
    IF parts = <<>> THEN <<>> ELSE Head(parts) \o Concat(Tail(parts))

RECURSIVE Join(_, _)
Join(sep, parts) ==
    IF parts = <<>> THEN <<>>
    ELSE IF Len(parts) = 1 THEN Head(parts)
    ELSE Head(parts) \o sep \o Join(sep, Tail(parts))

RECURSIVE LStrip(_, _)
LStrip(s, c) ==
    IF s # <<>> /\ Head(s) = c THEN LStrip(Tail(s), c) ELSE s

RECURSIVE RStrip(_, _)
RStrip(s, c) ==
    IF s # <<>> /\ s[Len(s)] = c THEN RStrip(SubSeq(s, 1, Len(s) - 1), c)
    ELSE s

Strip(s, c) == RStrip(LStrip(s, c), c)

RECURSIVE Replace(_, _, _)
Replace(s, c, r) ==
    IF s = <<>> THEN <<>>
    ELSE (IF Head(s) = c THEN r ELSE <<Head(s)>>) \o Replace(Tail(s), c, r)

UpperChar(c) ==
    CASE c = "a" -> "A" [] c = "e" -> "E" [] c = "f" -> "F"
      [] c = "h" -> "H" [] c = "l" -> "L" [] c = "m" -> "M"
      [] c = "o" -> "O" [] c = "p" -> "P" [] c = "r" -> "R"
      [] c = "t" -> "T" [] c = "u" -> "U" [] c = "x" -> "X"
      [] OTHER -> c

Upper(s) == [i \in 1..Len(s) |-> UpperChar(s[i])]

\* max(aliases, key=len): the first element of maximal length.
MaxByLen(aliases) ==
    LET best == CHOOSE i \in 1..Len(aliases) :
                    /\ \A j \in 1..Len(aliases) : Len(aliases[j]) <= Len(aliases[i])
                    /\ \A j \in 1..(i - 1) : Len(aliases[j]) < Len(aliases[i])
    IN aliases[best]

IsPrefix(p, s) == Len(p) <= Len(s) /\ SubSeq(s, 1, Len(p)) = p

IsSuffix(p, s) == Len(p) <= Len(s) /\ SubSeq(s, Len(s) - Len(p) + 1, Len(s)) = p

Contains(p, s) ==
    \E i \in 0..(Len(s) - Len(p)) : SubSeq(s, i + 1, i + Len(p)) = p

(***************************************************************************)
(* Results of a call: a returned value or a raised exception.              *)
(***************************************************************************)
Return(v) == [kind |-> "return", value |-> v, exc |-> "none"]
Raise(e) == [kind |-> "raise", value |-> <<>>, exc |-> e]
NotCalled == [kind |-> "none", value |-> <<>>, exc |-> "none"]

(***************************************************************************)
(* escape_zsh and serialize_argument_to_zsh.                               *)
(***************************************************************************)
escape_zsh(text) == Replace(text, ":", <<"\\", ":">>)

\* The metavar chosen by the if/elif/else; has |-> FALSE stands for None.
zsh_metavar(argument) ==
    IF argument.has_metavar
    THEN [has |-> TRUE, value |-> argument.metavar]
    ELSE IF argument.has_choices
    THEN [has |-> TRUE,
          value |-> Upper(Replace(LStrip(MaxByLen(argument.aliases), "-"),
                                  "-", <<"_">>))]
    ELSE [has |-> FALSE, value |-> <<>>]

\* The ':metavar:' element appended when the metavar is truthy.
zsh_metavar_segment(metavar) ==
    IF metavar.has /\ metavar.value # <<>>
    THEN << <<":">> \o escape_zsh(Strip(metavar.value, " ")) \o <<":">> >>
    ELSE <<>>

\* The '(choice ...)' element appended when 'choices' is configured.
zsh_choices_segment(argument) ==
    IF argument.has_choices
    THEN << <<"(">> \o Join(<<" ">>, argument.choices) \o <<")">> >>
    ELSE <<>>

\* prefix: '{a1,a2,...}' for several aliases, '' otherwise.
zsh_prefix(argument) ==
    IF Len(argument.aliases) > 1
    THEN <<"{">> \o Join(<<",">>, argument.aliases) \o <<"}">>
    ELSE <<>>

\* A variant that embeds the first alias whatever the number of aliases.
zsh_alias_segment_always(argument) == <<argument.aliases[1]>>

\* The alias appended to the declaration in the single-alias branch.
zsh_alias_segment(argument) ==
    IF Len(argument.aliases) > 1 THEN <<>> ELSE <<argument.aliases[1]>>

serialize_argument_to_zsh(argument) ==
    IF Len(argument.aliases) = 0
    THEN Raise("IndexError")
    ELSE
      LET prefix == zsh_prefix(argument)
          d1 == zsh_alias_segment(argument)
          d2 == IF ~argument.is_flag THEN Append(d1, <<"=">>) ELSE d1
          d3 == Append(d2, <<"[">> \o argument.short_help \o <<"]">>)
          d4 == d3 \o zsh_metavar_segment(zsh_metavar(argument))
          declaration == d4 \o zsh_choices_segment(argument)
      IN Return(prefix \o <<"'">> \o Concat(declaration) \o <<"'">>)

(***************************************************************************)
(* serialize_argument_to_fish.                                             *)
(***************************************************************************)
\* A variant of the unpack that keeps the first two aliases of a longer list.
fish_unpack_lenient(aliases) ==
    IF Len(aliases) >= 2
    THEN [kind |-> "ok", has_short |-> TRUE,
          short_form |-> aliases[1], long_form |-> aliases[2]]
    ELSE IF Len(aliases) = 1
    THEN [kind |-> "ok", has_short |-> FALSE,
          short_form |-> <<>>, long_form |-> aliases[1]]
    ELSE [kind |-> "ValueError", has_short |-> FALSE,
          short_form |-> <<>>, long_form |-> <<>>]

\* try: short_form, long_form = aliases
\* except ValueError: short_form = None; (long_form,) = aliases
fish_unpack(aliases) ==
    IF Len(aliases) = 2
    THEN [kind |-> "ok", has_short |-> TRUE,
          short_form |-> aliases[1], long_form |-> aliases[2]]
    ELSE IF Len(aliases) = 1
    THEN [kind |-> "ok", has_short |-> FALSE,
          short_form |-> <<>>, long_form |-> aliases[1]]
    ELSE [kind |-> "ValueError", has_short |-> FALSE,
          short_form |-> <<>>, long_form |-> <<>>]

serialize_argument_to_fish(argument) ==
    LET u == fish_unpack(argument.aliases)
    IN IF u.kind # "ok"
       THEN Raise(u.kind)
       ELSE
         LET d0 == << <<"c","o","m","p","l","e","t","e">>, <<"-","c">>,
                      <<"h","t","t","p">> >>
             d1 == IF u.has_short /\ u.short_form # <<>>
                   THEN d0 \o << <<"-","s">>, u.short_form >>
                   ELSE d0
             d2 == d1 \o << <<"-","l">>, u.long_form >>
             d3 == IF argument.has_choices
                   THEN d2 \o << <<"-","x","a">>,
                                 <<"\"">> \o Join(<<" ">>, argument.choices)
                                          \o <<"\"">> >>
                   ELSE IF argument.has_lazy_choices
                   THEN Append(d2, <<"-","x">>)
                   ELSE d2
             d4 == d3 \o << <<"-","d">>,
                            <<"'">> \o Replace(argument.short_help, "'",
                                               <<"\\", "'">>)
                                    \o <<"'">> >>
         IN Return(Join(<<"\t">>, d4))

(***************************************************************************)
(* find_argument_by_target_name.                                           *)
(***************************************************************************)
\* A variant of the target list that never falls back to the metavar.
targets_aliases_only(argument) == argument.aliases

\* targets = argument.aliases if argument.aliases else [argument.metavar]
targets(argument) ==
    IF argument.aliases # <<>> THEN argument.aliases ELSE <<argument.metavar>>

InList(x, list) == \E i \in 1..Len(list) : list[i] = x

RECURSIVE scan_from(_, _, _, _)
scan_from(s, n, g, a) ==
    IF g > Len(s.groups) THEN <<0, 0>>
    ELSE IF a > Len(s.groups[g].arguments) THEN scan_from(s, n, g + 1, 1)
    ELSE IF InList(n, targets(s.groups[g].arguments[a])) THEN <<g, a>>
    ELSE scan_from(s, n, g, a + 1)

\* A variant of the scan that keeps going and answers with the last match.
RECURSIVE scan_last_from(_, _, _, _)
scan_last_from(s, n, g, a) ==
    IF g > Len(s.groups) THEN <<0, 0>>
    ELSE IF a > Len(s.groups[g].arguments) THEN scan_last_from(s, n, g + 1, 1)
    ELSE LET rest == scan_last_from(s, n, g, a + 1)
         IN IF rest # <<0, 0>> THEN rest
            ELSE IF InList(n, targets(s.groups[g].arguments[a])) THEN <<g, a>>
            ELSE <<0, 0>>

scan_last(s, n) == scan_last_from(s, n, 1, 1)

\* The position (group, argument) of the first match, <<0, 0>> when the
\* two for loops run to their end.
scan(s, n) == scan_from(s, n, 1, 1)

find_argument_by_target_name(s, n) ==
    LET at == scan(s, n)
    IN IF at # <<0, 0>>
       THEN [kind |-> "return", at |-> at, exc |-> "none"]
       ELSE [kind |-> "raise", at |-> <<0, 0>>, exc |-> "ValueError"]

NotLooked == [kind |-> "none", at |-> <<0, 0>>, exc |-> "none"]

ArgAt(s, at) == s.groups[at[1]].arguments[at[2]]

(***************************************************************************)
(* Inputs: Argument objects and ParserSpec objects of bounded size.        *)
(***************************************************************************)
SeqsUpTo(S, n) == UNION {[1..k -> S] : k \in 0..n}

Argument(aliases, is_flag, is_hidden, is_positional, short_help, has_metavar, metavar, has_choices, choices, has_lazy_choices) ==
    [aliases |-> aliases, is_flag |-> is_flag, is_hidden |-> is_hidden,
     is_positional |-> is_positional, short_help |-> short_help,
     has_metavar |-> has_metavar, metavar |-> metavar,
     has_choices |-> has_choices, choices |-> choices,
     has_lazy_choices |-> has_lazy_choices]

NoArgument == Argument(<<>>, FALSE, FALSE, FALSE, <<>>,
                       FALSE, <<>>, FALSE, <<>>, FALSE)

ShowHelp == <<"S","h","o","w"," ","h","e","l","p">>
WriteToFile == <<"W","r","i","t","e"," ","t","o"," ","'","f","i","l","e","'">>
FORMAT == <<"F","O","R","M","A","T">>
REQUEST_ITEM == <<"R","E","Q","U","E","S","T","_","I","T","E","M">>
TwoChoices == << <<"a">>, <<"b">> >>

ZshAliases ==
    { <<"-","h">>, <<"-","-","h","e","l","p">>, <<"-","o">>,
      <<"-","-","o","u","t","p","u","t","-","f","o","r","m","a","t">>,
      <<"-","-">> }

\* Explicit metavars: empty, blank, plain, with colons and padding, and
\* with a leading tab.
ZshMetavars ==
    { <<>>, <<" ">>, FORMAT, <<" ","F",":","G"," ">>, <<"\t","F">> }

\* Configurations: no 'metavar' key, or one of the explicit metavars.
ZshMetavarConfigs ==
    { <<FALSE, <<>> >> } \cup { <<TRUE, mv>> : mv \in ZshMetavars }

ZshArguments ==
    { Argument(al, fl, FALSE, FALSE, ShowHelp, mc[1], mc[2], hc,
               IF hc THEN TwoChoices ELSE <<>>, FALSE) :
        al \in SeqsUpTo(ZshAliases, MaxAliases), fl \in BOOLEAN,
        mc \in ZshMetavarConfigs, hc \in BOOLEAN }

FishAliases ==
    { <<"-","o">>, <<"-","-","o","u","t","p","u","t">>, <<"-","h">> }

FishArguments ==
    { Argument(al, fl, FALSE, FALSE, sh, FALSE, <<>>, hc,
               IF hc THEN TwoChoices ELSE <<>>, lz) :
        al \in SeqsUpTo(FishAliases, MaxAliases), fl \in BOOLEAN,
        sh \in {ShowHelp, WriteToFile}, hc \in BOOLEAN, lz \in BOOLEAN }

A_request == Argument(<<>>, FALSE, FALSE, TRUE, <<"i">>,
                      TRUE, REQUEST_ITEM, FALSE, <<>>, FALSE)
A_json == Argument(<< <<"-","-","j">> >>, FALSE, FALSE, FALSE, <<"j">>,
                   TRUE, FORMAT, FALSE, <<>>, FALSE)
A_out == Argument(<< <<"-","o">>, <<"-","-","o","u","t">> >>, FALSE, FALSE,
                  FALSE, <<"o">>, FALSE, <<>>, FALSE, <<>>, FALSE)
A_three == Argument(<< <<"-","o">>, <<"-","v">>, <<"-","-","v","v">> >>,
                    TRUE, FALSE, FALSE, <<"v">>, FALSE, <<>>, FALSE, <<>>,
                    FALSE)
A_hidden == Argument(<< <<"-","x">>, <<"-","y">>, <<"-","z">> >>,
                     TRUE, TRUE, FALSE, <<"h">>, FALSE, <<>>, FALSE, <<>>,
                     FALSE)

ArgPool == {A_request, A_json, A_out, A_three, A_hidden}

NamePool == {REQUEST_ITEM, FORMAT, <<"-","o">>, <<"-","-","n","o">>}

\* The ways to cut n arguments into k consecutive groups, empty groups
\* included: c[i] arguments precede group i.
Cuts(n, k) ==
    { c \in [1..(k + 1) -> 0..n] :
        /\ c[1] = 0 /\ c[k + 1] = n
        /\ \A i \in 1..k : c[i] <= c[i + 1] }

GroupsOf(flat, k, c) ==
    [i \in 1..k |-> [arguments |-> SubSeq(flat, c[i] + 1, c[i + 1])]]

\* Every specification of at most MaxGroups groups holding at most MaxArgs
\* arguments in all.
ParserSpecs ==
    UNION { UNION { { [groups |-> GroupsOf(flat, k, c)] :
                        c \in Cuts(Len(flat), k) } :
                    k \in 0..MaxGroups } :
            flat \in SeqsUpTo(ArgPool, MaxArgs) }

NoSpec == [groups |-> <<>>]

(***************************************************************************)
(* The template pipeline: prepare_objects, the wrapper built by            *)
(* use_template, and the registration table.                               *)
(***************************************************************************)
COMPLETERS_reversed == <<"fish", "zsh">>

\* Filled at import time by @use_template('zsh'), then @use_template('fish');
\* a dict iterates in insertion order.
COMPLETERS == <<"zsh", "fish">>

Shells == {"zsh", "fish"}

NoGlobals == [request_items |-> NoArgument, arguments |-> <<>>]

Absent == [exists |-> FALSE, text |-> <<>>]
Stale == [exists |-> TRUE, text |-> << <<"#">> >>]
Truncated == [exists |-> TRUE, text |-> <<>>]
NoFiles == [s \in Shells |-> Absent]

RECURSIVE visible_arguments_from(_, _, _)
visible_arguments_from(s, g, a) ==
    IF g > Len(s.groups) THEN <<>>
    ELSE IF a > Len(s.groups[g].arguments)
    THEN visible_arguments_from(s, g + 1, 1)
    ELSE LET argument == s.groups[g].arguments[a]
         IN (IF ~argument.is_hidden /\ ~argument.is_positional
             THEN <<argument>> ELSE <<>>)
            \o visible_arguments_from(s, g, a + 1)

\* The bindings that depend on the specification; BASE_FUNCTIONS, 'methods'
\* and 'generate_flow' are the same in every run.
\* A variant that binds no request item when the lookup fails.
prepare_objects_lenient(s) ==
    LET request_items == find_argument_by_target_name(s, REQUEST_ITEM)
    IN Return([request_items |-> IF request_items.kind = "raise"
                                 THEN NoArgument
                                 ELSE ArgAt(s, request_items.at),
               arguments |-> visible_arguments_from(s, 1, 1)])

prepare_objects(s) ==
    LET request_items == find_argument_by_target_name(s, REQUEST_ITEM)
    IN IF request_items.kind = "raise"
       THEN Raise(request_items.exc)
       ELSE Return([request_items |-> ArgAt(s, request_items.at),
                    arguments |-> visible_arguments_from(s, 1, 1)])

\* The serializer a completer hands to its template.
serializer(sh, argument) ==
    IF sh = "zsh" THEN serialize_argument_to_zsh(argument)
    ELSE serialize_argument_to_fish(argument)

\* The template calls the shell's serializer on every bound argument, in
\* order; the first exception ends the rendering.
RECURSIVE render(_, _)
render(sh, arguments) ==
    IF arguments = <<>> THEN Return(<<>>)
    ELSE LET first == serializer(sh, Head(arguments))
         IN IF first.kind = "raise" THEN first
            ELSE LET rest == render(sh, Tail(arguments))
                 IN IF rest.kind = "raise" THEN rest
                    ELSE Return(<<first.value>> \o rest.value)

(***************************************************************************)
(* Specifications of the three pure functions: the input is drawn in the   *)
(* initial state and one action applies the function.                      *)
(***************************************************************************)
PipelineIdle ==
    /\ pc = "idle" /\ idx = 0 /\ shell = "none"
    /\ stdout = <<>> /\ invoked = <<>> /\ steps = <<>>
    /\ globals = NoGlobals /\ rendered = NotCalled
    /\ files = NoFiles /\ before = NoFiles /\ exc = "none"

pipeline_vars == <<pc, idx, shell, stdout, invoked, steps, globals,
                   rendered, files, before, exc>>

InitZsh ==
    /\ arg \in ZshArguments /\ out = NotCalled
    /\ spec = NoSpec /\ name = <<>> /\ found = NotLooked
    /\ PipelineIdle

SerializeZsh ==
    /\ out.kind = "none"
    /\ out' = serialize_argument_to_zsh(arg)
    /\ UNCHANGED <<arg, spec, name, found, pipeline_vars>>

SpecZsh == InitZsh /\ [][SerializeZsh]_vars

InitFish ==
    /\ arg \in FishArguments /\ out = NotCalled
    /\ spec = NoSpec /\ name = <<>> /\ found = NotLooked
    /\ PipelineIdle

SerializeFish ==
    /\ out.kind = "none"
    /\ out' = serialize_argument_to_fish(arg)
    /\ UNCHANGED <<arg, spec, name, found, pipeline_vars>>

SpecFish == InitFish /\ [][SerializeFish]_vars

InitFind ==
    /\ arg = NoArgument /\ out = NotCalled
    /\ spec \in ParserSpecs /\ name \in NamePool /\ found = NotLooked
    /\ PipelineIdle

Find ==
    /\ found.kind = "none"
    /\ found' = find_argument_by_target_name(spec, name)
    /\ UNCHANGED <<arg, out, spec, name, pipeline_vars>>

SpecFind == InitFind /\ [][Find]_vars

(***************************************************************************)
(* main() and the wrapper of each completer, one action per statement.     *)
(***************************************************************************)
serializer_vars == <<arg, out, name, found>>

InitMain ==
    /\ arg = NoArgument /\ out = NotCalled
    /\ spec \in ParserSpecs /\ name = <<>> /\ found = NotLooked
    /\ pc = "main" /\ idx = 0 /\ shell = "none"
    /\ stdout = <<>> /\ invoked = <<>> /\ steps = <<>>
    /\ globals = NoGlobals /\ rendered = NotCalled
    /\ \E old \in {Absent, Stale} : files = [s \in Shells |-> old]
    /\ before = files
    /\ exc = "none"

\* for shell_type, completer in COMPLETERS.items(): print(...)
MainPrint ==
    /\ pc = "main" /\ idx < Len(COMPLETERS)
    /\ idx' = idx + 1
    /\ shell' = COMPLETERS[idx + 1]
    /\ stdout' = Append(stdout, COMPLETERS[idx + 1])
    /\ pc' = "call"
    /\ UNCHANGED <<serializer_vars, spec, invoked, steps, globals, rendered,
                   files, before, exc>>

\* The for loop is exhausted.
MainDone ==
    /\ pc = "main" /\ idx = Len(COMPLETERS)
    /\ pc' = "done"
    /\ UNCHANGED <<serializer_vars, spec, idx, shell, stdout, invoked, steps,
                   globals, rendered, files, before, exc>>

\* completer(options)
CallCompleter ==
    /\ pc = "call"
    /\ invoked' = Append(invoked, shell)
    /\ before' = files
    /\ steps' = <<>>
    /\ globals' = NoGlobals
    /\ rendered' = NotCalled
    /\ pc' = "load"
    /\ UNCHANGED <<serializer_vars, spec, idx, shell, stdout, files, exc>>

\* jinja_template = Template(template_file.read_text())
LoadTemplate ==
    /\ pc = "load"
    /\ \/ /\ steps' = Append(steps, "load")
          /\ pc' = "bind"
          /\ exc' = exc
       \/ /\ exc' = "OSError"
          /\ pc' = "aborted"
          /\ steps' = steps
    /\ UNCHANGED <<serializer_vars, spec, idx, shell, stdout, invoked,
                   globals, rendered, files, before>>

\* jinja_template.globals.update(prepare_objects(spec))
BindGlobals ==
    /\ pc = "bind"
    /\ LET objects == prepare_objects(spec)
       IN IF objects.kind = "raise"
          THEN /\ exc' = objects.exc
               /\ pc' = "aborted"
               /\ UNCHANGED <<steps, globals>>
          ELSE /\ globals' = objects.value
               /\ steps' = Append(steps, "bind")
               /\ pc' = "extra"
               /\ exc' = exc
    /\ UNCHANGED <<serializer_vars, spec, idx, shell, stdout, invoked,
                   rendered, files, before>>

\* extra_variables = func(spec)
ExtraVariables ==
    /\ pc = "extra"
    /\ steps' = Append(steps, "extra")
    /\ pc' = "render"
    /\ UNCHANGED <<serializer_vars, spec, idx, shell, stdout, invoked,
                   globals, rendered, files, before, exc>>

\* A variant of the rendering step that has already opened the output file
\* for writing when the template is rendered.
RenderIntoOpenFile ==
    /\ pc = "render"
    /\ rendered' = render(shell, globals.arguments)
    /\ IF rendered'.kind = "raise"
       THEN /\ exc' = rendered'.exc
            /\ pc' = "aborted"
            /\ files' = [files EXCEPT ![shell] = Truncated]
            /\ steps' = steps
       ELSE /\ steps' = Append(steps, "render")
            /\ pc' = "write"
            /\ UNCHANGED <<exc, files>>
    /\ UNCHANGED <<serializer_vars, spec, idx, shell, stdout, invoked,
                   globals, before>>

\* jinja_template.render(**extra_variables), the argument of write_text
Render ==
    /\ pc = "render"
    /\ rendered' = render(shell, globals.arguments)
    /\ IF rendered'.kind = "raise"
       THEN /\ exc' = rendered'.exc
            /\ pc' = "aborted"
            /\ steps' = steps
       ELSE /\ steps' = Append(steps, "render")
            /\ pc' = "write"
            /\ exc' = exc
    /\ UNCHANGED <<serializer_vars, spec, idx, shell, stdout, invoked,
                   globals, files, before>>

\* compiletion_script_file.write_text(...): the file is replaced by the
\* rendered text, or the write fails with the file untouched or truncated.
WriteText ==
    /\ pc = "write"
    /\ \/ /\ files' = [files EXCEPT
                         ![shell] = [exists |-> TRUE, text |-> rendered.value]]
          /\ steps' = Append(steps, "write")
          /\ pc' = "main"
          /\ exc' = exc
       \/ /\ files' \in {files, [files EXCEPT ![shell] = Truncated]}
          /\ exc' = "OSError"
          /\ pc' = "aborted"
          /\ steps' = steps
    /\ UNCHANGED <<serializer_vars, spec, idx, shell, stdout, invoked,
                   globals, rendered, before>>

NextMain ==
    \/ MainPrint
    \/ MainDone
    \/ CallCompleter
    \/ LoadTemplate
    \/ BindGlobals
    \/ ExtraVariables
    \/ Render
    \/ WriteText

Spec == InitMain /\ [][NextMain]_vars

(***************************************************************************)
(* Properties of serialize_argument_to_zsh, checked under SpecZsh.         *)
(***************************************************************************)
Quote == <<"'">>

\* C1: with one alias the declaration is the quoted body, which starts with
\* the alias; with two or more aliases it is '{' + aliases joined by ',' +
\* '}' followed by the quoted body, which starts with '=' (value arguments)
\* or the bracketed help and embeds no alias.
C1_ZshAliasPrefixing ==
    (out.kind # "none" /\ Len(arg.aliases) >= 1) =>
        /\ out.kind = "return"
        /\ LET body == (IF arg.is_flag THEN <<>> ELSE <<"=">>)
                       \o <<"[">> \o arg.short_help \o <<"]">>
           IN IF Len(arg.aliases) = 1
              THEN IsPrefix(Quote \o arg.aliases[1] \o body, out.value)
              ELSE IsPrefix(<<"{">> \o Join(<<",">>, arg.aliases) \o <<"}">>
                            \o Quote \o body, out.value)

C1_Witness ==
    /\ arg.aliases = << <<"-","h">>, <<"-","-","h","e","l","p">> >>
    /\ arg.is_flag /\ ~arg.has_metavar /\ ~arg.has_choices
    /\ out.kind = "return"
    /\ out.value = <<"{","-","h",",","-","-","h","e","l","p","}","'","[","S","h","o","w"," ","h","e","l","p","]","'">>

\* C2: an argument with choices and at least one alias always has a
\* ':metavar:' segment, and its '(choice ...)' list directly follows the
\* colon that closes that segment.
C2_ChoicesOnlyAfterMetavar ==
    (out.kind # "none" /\ arg.has_choices /\ arg.aliases # <<>>) =>
        /\ out.kind = "return"
        /\ IsSuffix(<<":", "(">> \o Join(<<" ">>, arg.choices)
                    \o <<")">> \o Quote, out.value)

RECURSIVE LStripWhitespace(_)
LStripWhitespace(s) ==
    IF s # <<>> /\ Head(s) \in {" ", "\t", "\n"}
    THEN LStripWhitespace(Tail(s)) ELSE s

RECURSIVE RStripWhitespace(_)
RStripWhitespace(s) ==
    IF s # <<>> /\ s[Len(s)] \in {" ", "\t", "\n"}
    THEN RStripWhitespace(SubSeq(s, 1, Len(s) - 1)) ELSE s

\* C3: the metavar is the explicit one when configured, else derived from
\* the longest alias when choices exist; whenever one is resolved the
\* declaration contains ':' + m + ':', m being the metavar with all
\* surrounding whitespace stripped and every ':' escaped.
C3_MetavarSegment ==
    (out.kind = "return" /\ (arg.has_metavar \/ arg.has_choices)) =>
        LET resolved == IF arg.has_metavar THEN arg.metavar
                        ELSE Upper(Replace(LStrip(MaxByLen(arg.aliases), "-"),
                                           "-", <<"_">>))
            m == Replace(RStripWhitespace(LStripWhitespace(resolved)),
                         ":", <<"\\", ":">>)
        IN Contains(<<":">> \o m \o <<":">>, out.value)

(***************************************************************************)
(* Properties of serialize_argument_to_fish, checked under SpecFish.       *)
(***************************************************************************)
FishHead == << <<"c","o","m","p","l","e","t","e">>, <<"-","c">>,
               <<"h","t","t","p">> >>

FishHelp(help) ==
    << <<"-","d">>, Quote \o Replace(help, "'", <<"\\", "'">>) \o Quote >>

\* C4: with two aliases and no choices the declaration is the tab-joined
\* list complete, -c, http, -s, short, -l, long, -d, 'help', short and long
\* being the aliases without their leading dashes; with one alias the -s
\* pair is omitted.
C4_FishDeclarationShape ==
    (out.kind # "none" /\ ~arg.has_choices /\ ~arg.has_lazy_choices) =>
        /\ Len(arg.aliases) = 2 =>
             /\ out.kind = "return"
             /\ out.value =
                  Join(<<"\t">>,
                       FishHead
                       \o << <<"-","s">>, LStrip(arg.aliases[1], "-"),
                             <<"-","l">>, LStrip(arg.aliases[2], "-") >>
                       \o FishHelp(arg.short_help))
        /\ Len(arg.aliases) = 1 =>
             /\ out.kind = "return"
             /\ \E long \in {arg.aliases[1], LStrip(arg.aliases[1], "-")} :
                  out.value = Join(<<"\t">>,
                                   FishHead \o << <<"-","l">>, long >>
                                   \o FishHelp(arg.short_help))

\* C5: an argument with more than two aliases makes the fish serializer
\* raise; it returns no declaration.
C5_FishRejectsExtraAliases ==
    (out.kind # "none" /\ Len(arg.aliases) > 2) =>
        /\ out.kind = "raise"
        /\ out.exc = "ValueError"
        /\ out.value = <<>>

C5_Witness ==
    /\ Len(arg.aliases) = 3
    /\ out.kind = "raise"

(***************************************************************************)
(* Properties of find_argument_by_target_name, checked under SpecFind.     *)
(***************************************************************************)
Positions(s) ==
    UNION { { <<g, a>> : a \in 1..Len(s.groups[g].arguments) } :
            g \in 1..Len(s.groups) }

Earlier(p, q) == p[1] < q[1] \/ (p[1] = q[1] /\ p[2] < q[2])

\* The names an argument answers to: its aliases, or its metavar alone when
\* it has no alias.
TargetSet(argument) ==
    IF Len(argument.aliases) > 0
    THEN { argument.aliases[i] : i \in 1..Len(argument.aliases) }
    ELSE { argument.metavar }

\* C6: the lookup returns the first argument, in group order then argument
\* order, whose targets contain the name.
C6_FindReturnsFirstTarget ==
    found.kind # "none" =>
        \A p \in Positions(spec) :
            ( /\ name \in TargetSet(ArgAt(spec, p))
              /\ \A q \in Positions(spec) :
                    Earlier(q, p) => name \notin TargetSet(ArgAt(spec, q)) )
            => (found.kind = "return" /\ found.at = p)

C6_Witness ==
    /\ name = REQUEST_ITEM
    /\ found.kind = "return"
    /\ found.at = <<2, 2>>
    /\ ArgAt(spec, found.at).aliases = <<>>
    /\ ArgAt(spec, found.at).metavar = REQUEST_ITEM

\* C7 as stated: every name that is an alias or the metavar of some argument
\* is found, and the argument returned has it as an alias or as its metavar.
C7_LookupTotality ==
    found.kind # "none" =>
        ( (\E p \in Positions(spec) :
              LET a == ArgAt(spec, p)
              IN InList(name, a.aliases) \/ (a.has_metavar /\ a.metavar = name))
          => /\ found.kind = "return"
             /\ LET r == ArgAt(spec, found.at)
                IN InList(name, r.aliases) \/ (r.has_metavar /\ r.metavar = name) )

\* C7 amended: every name that is an alias of some argument, or the metavar
\* of an argument without aliases, is found; the argument returned has the
\* name among its targets, and is the only such argument when there is
\* exactly one.
C7_LookupTotalityOnTargets ==
    found.kind # "none" =>
        LET matches == { p \in Positions(spec) :
                           name \in TargetSet(ArgAt(spec, p)) }
        IN matches # {} =>
             /\ found.kind = "return"
             /\ found.at \in matches
             /\ Cardinality(matches) = 1 => matches = {found.at}

C7_Witness ==
    /\ name = REQUEST_ITEM
    /\ found.kind = "return"
    /\ ArgAt(spec, found.at) = A_request
    /\ Len(spec.groups) = 2

(***************************************************************************)
(* Properties of the pipeline, checked under Spec.                         *)
(***************************************************************************)
NoRequestItem ==
    \A p \in Positions(spec) : REQUEST_ITEM \notin TargetSet(ArgAt(spec, p))

BindAttempted == steps # <<>> /\ pc # "bind"

C9_DriverOrder ==
    /\ [](  /\ IsPrefix(stdout, <<"zsh", "fish">>)
            /\ IsPrefix(invoked, stdout)
            /\ Len(stdout) <= Len(invoked) + 1
            /\ (pc = "done" => (invoked = <<"zsh", "fish">> /\ exc = "none"))
            /\ (exc # "none" => pc = "aborted") )
    /\ [][spec' = spec]_vars
    /\ [][exc # "none" => (invoked' = invoked /\ stdout' = stdout)]_vars

C9_Witness ==
    /\ pc = "done"
    /\ stdout = <<"zsh", "fish">>
    /\ invoked = <<"zsh", "fish">>

VisibleCount ==
    Cardinality({ p \in Positions(spec) :
                    /\ ~ArgAt(spec, p).is_hidden
                    /\ ~ArgAt(spec, p).is_positional })

\* C10: the steps of a generator run in the order load, bind, extra
\* bindings, render, write; the output file of the shell changes only in the
\* write step; when the lookup or a serializer raises, the file of that
\* shell is as it was before the invocation, and the file written for the
\* earlier shell stays written.
C10_WriteIsLast ==
    (idx > 0 /\ Len(invoked) = idx) =>
        /\ IsPrefix(steps, <<"load", "bind", "extra", "render", "write">>)
        /\ \A s \in Shells \ {shell} : files[s] = before[s]
        /\ files[shell] # before[shell] =>
             \/ steps = <<"load", "bind", "extra", "render", "write">>
             \/ (exc = "OSError" /\ steps = <<"load", "bind", "extra", "render">>)
        /\ (pc = "aborted" /\ exc \in {"ValueError", "IndexError"}) =>
             /\ files[shell] = before[shell]
             /\ Len(steps) < 4
             /\ shell = "fish" =>
                  /\ files["zsh"].exists
                  /\ Len(files["zsh"].text) = VisibleCount

C10_Witness ==
    /\ pc = "aborted"
    /\ exc = "ValueError"
    /\ shell = "fish"
    /\ steps = <<"load", "bind", "extra">>
    /\ files["fish"] = Stale
    /\ files["zsh"].exists /\ files["zsh"] # Stale

====
